---- MODULE Spec2Model ----
(***************************************************************************)
(* A model of 10-finetuning-llama-405b/train_llm.py: world_size worker     *)
(* processes run main() in lock step over dist.barrier(), restore from and *)
(* save to one checkpoint record on shared storage, and the whole job can  *)
(* be killed and launched again on the storage it left behind.             *)
(***************************************************************************)
EXTENDS Integers, Naturals, Sequences, FiniteSets, TLC

\* ------------------------------------------------------------------ bounds
MaxWorld == 2        \* largest world size tried
MaxBatches == 2      \* largest len(dataloader) tried
MaxEpochs == 2       \* largest --num-epochs tried
MaxFreq == 2         \* largest --log-freq / --ckpt-freq tried
MaxLaunches == 2     \* launches of the job on the same storage
MaxClock == 2        \* largest value of time.time() tried
MaxSamples == 3      \* largest number of samples a LocalTimer holds

VARIABLES
    cfg,         \* launch parameters: world_size, batches, num_epochs, log_freq, ckpt_freq
    launch,      \* which launch of the job this is (1, 2, ...)
    pc,          \* pc[r]: the program point of rank r
    bar,         \* bar[r]: "out" | "in" (blocked in a collective) | "go" (released)
    state,       \* state[r]: the TrainingState dictionary of rank r
    resumed,     \* resumed[r]
    restored,    \* restored[r]: the TrainingState rank r entered the loop with
    loaded,      \* loaded[r]: which save() wrote each part rank r restored from
    ep_next,     \* next value of range(state["epoch"], num_epochs)
    i_next,      \* next value of range(len(dataloader))
    i_step,      \* i_step of the step loop
    pulled,      \* number of next(batches) calls on the current iterator
    batch,       \* index (within the epoch) of the batch held on the device
    loss,        \* outputs.loss of the last forward
    updates,     \* optimizer updates contained in rank r's model/optimizer shard
    sched_steps, \* lr_scheduler steps contained in rank r's scheduler
    upd_since,   \* optimizer.step() calls of rank r in this launch
    timers,      \* timers[r][k]: number of samples in timer k
    info,        \* last metrics record computed by rank r
    shard,       \* storage: checkpoint/ blob of each rank
    sched,       \* storage: lr_scheduler.pt
    stateJson,   \* storage: state.json
    expDir,      \* storage: exp_dir exists
    cache,       \* storage: the dataset is in the shared cache
    sawCache,    \* what rank r found when it looked into the cache
    train_data,  \* rank r holds train_data
    work,        \* rank r's unit of work in rank0_first: "none" | "started" | "done"
    lf_calls,    \* dist.barrier() calls of rank r inside rank0_first
    fetchers,    \* ranks that downloaded the dataset, over all launches
    fetches,     \* number of downloads, over all launches
    died,        \* died[r]: the program point at which rank r was terminated, or "no"
    lt           \* one LocalTimer object: its fields and the with block that uses it

ctlVars == <<pc, bar>>
trainVars == <<state, resumed, restored, loaded, ep_next, i_next, i_step, pulled, batch, loss,
               updates, sched_steps, upd_since, timers, info>>
diskVars == <<shard, sched, stateJson, expDir>>
dataVars == <<cache, sawCache, train_data, work, lf_calls, fetchers, fetches>>
progVars == <<cfg, launch, ctlVars, trainVars, diskVars, dataVars, died>>
vars == <<cfg, launch, ctlVars, trainVars, diskVars, dataVars, died, lt>>

\* ------------------------------------------------------------ configuration
Configs ==
    [world_size : 2..MaxWorld, batches : 1..MaxBatches, num_epochs : 1..MaxEpochs,
     log_freq : 1..MaxFreq, ckpt_freq : 1..MaxFreq]

Ranks == 0 .. (cfg.world_size - 1)

TimerNames == {"data", "forward", "backward", "update", "waiting"}

\* state = {"epoch": 0, "global_step": 0, "epoch_step": 0, "running_loss": 0}
ZeroState == [epoch |-> 0, global_step |-> 0, epoch_step |-> 0, running_loss |-> 0]

\* a storage object is absent, truncated by a write that did not finish, or whole
Absent == [kind |-> "absent"]
Partial == [kind |-> "partial"]
Blob(id, v) == [kind |-> "whole", save |-> id, val |-> v]
IsWhole(b) == b.kind = "whole"
Exists(b) == b.kind # "absent"

NoInfo == [step |-> -1, running_loss |-> 0]

\* a save() call is identified by the launch and the global_step it was made at
NoSave == <<0, 0>>
NothingLoaded == [shard |-> NoSave, sched |-> NoSave, state |-> NoSave]

\* the loss the compute engine returns for batch i of rank r
LossOf(r, i) == 1 + ((r + i) % 2)

\* ---------------------------------------------------------------- LocalTimer
\* self.start_time = None
None == <<>>

\* self.start_time = time.time()
Mark(t) == <<t>>

\* __init__: self.measurements = []; self.start_time = None. The fields "at" and "last"
\* are the position of the with statement that uses the timer and the method that
\* returned last; "now" is time.time()
NewTimer ==
    [measurements |-> <<>>, start_time |-> None, now |-> 0, at |-> "idle", last |-> "init"]

\* __enter__(self): self.start_time = time.time()
Enter(t) == [t EXCEPT !.start_time = Mark(t.now)]

Exit_AlwaysRecords(t, traceback) ==
    [t EXCEPT !.measurements = Append(@, t.now - t.start_time[1]), !.start_time = None]

\* __exit__(self, type, value, traceback): traceback is None when the body returned;
\* `traceback` here says whether there is one
Exit(t, traceback) ==
    [t EXCEPT !.measurements = IF traceback THEN @ ELSE Append(@, t.now - t.start_time[1]),
              !.start_time = None]

\* reset(self): self.measurements = []; self.start_time = None
Reset(t) == [t EXCEPT !.measurements = <<>>, !.start_time = None]

\* ------------------------------------------------------------------- Init
\* the memory of the processes when main() starts
Fresh ==
    [pc |-> [r \in Ranks |-> "lf_enter"],
     bar |-> [r \in Ranks |-> "out"],
     state |-> [r \in Ranks |-> ZeroState],
     resumed |-> [r \in Ranks |-> FALSE],
     restored |-> [r \in Ranks |-> ZeroState],
     loaded |-> [r \in Ranks |-> NothingLoaded],
     ep_next |-> [r \in Ranks |-> 0],
     i_next |-> [r \in Ranks |-> 0],
     i_step |-> [r \in Ranks |-> 0],
     pulled |-> [r \in Ranks |-> 0],
     batch |-> [r \in Ranks |-> -1],
     loss |-> [r \in Ranks |-> 0],
     updates |-> [r \in Ranks |-> 0],
     sched_steps |-> [r \in Ranks |-> 0],
     upd_since |-> [r \in Ranks |-> 0],
     timers |-> [r \in Ranks |-> [k \in TimerNames |-> 0]],
     info |-> [r \in Ranks |-> NoInfo],
     sawCache |-> [r \in Ranks |-> FALSE],
     train_data |-> [r \in Ranks |-> FALSE],
     work |-> [r \in Ranks |-> "none"],
     lf_calls |-> [r \in Ranks |-> 0],
     died |-> [r \in Ranks |-> "no"]]

FreshProcess ==
    /\ pc = Fresh.pc
    /\ bar = Fresh.bar
    /\ state = Fresh.state
    /\ resumed = Fresh.resumed
    /\ restored = Fresh.restored
    /\ loaded = Fresh.loaded
    /\ ep_next = Fresh.ep_next
    /\ i_next = Fresh.i_next
    /\ i_step = Fresh.i_step
    /\ pulled = Fresh.pulled
    /\ batch = Fresh.batch
    /\ loss = Fresh.loss
    /\ updates = Fresh.updates
    /\ sched_steps = Fresh.sched_steps
    /\ upd_since = Fresh.upd_since
    /\ timers = Fresh.timers
    /\ info = Fresh.info
    /\ sawCache = Fresh.sawCache
    /\ train_data = Fresh.train_data
    /\ work = Fresh.work
    /\ lf_calls = Fresh.lf_calls
    /\ died = Fresh.died

\* the first launch of a job: fresh processes on empty storage
FreshJob ==
    /\ launch = 1
    /\ FreshProcess
    /\ shard = [r \in Ranks |-> Absent]
    /\ sched = Absent
    /\ stateJson = Absent
    /\ expDir = FALSE
    /\ cache = FALSE
    /\ fetchers = {}
    /\ fetches = 0
    /\ lt = NewTimer

Init == cfg \in Configs /\ FreshJob

\* -------------------------------------------------------------- dist.barrier
\* the program points at which a rank calls a collective of the process group: the
\* dist.barrier() calls, named by their line, those of rank0_first, and "save_sync",
\* the collective inside save() that every rank passes only when all have written
BarrierPoints ==
    {"lf_bar1", "lf_bar2", "b195", "b200", "b248", "b256", "b266", "b276",
     "b309", "save_sync", "b322"}

TimedBarriers_None == {}

\* with timers["waiting"]: dist.barrier()
TimedBarriers == {"b248", "b256", "b266", "b276"}

\* where a rank goes when the checkpoint branch is taken: dist.barrier(), then the write
BeforeWrite(r) == "b309"

AfterWrite_NoBarrier(r) == "step_head"

AfterWrite_LeaderOnly(r) == IF r = 0 THEN "b322" ELSE "step_head"

\* where a rank goes when its writes of the save are done: dist.barrier()
AfterWrite(r) == "b322"

AfterBarrier_AllWriteLeaderFiles(p, r) ==
    CASE p = "lf_bar1" -> IF r > 0 THEN "lf_work" ELSE "lf_bar2"
      [] p = "lf_bar2" -> "restore_check"
      [] p = "b195" -> IF r = 0 THEN "mkdir" ELSE "b200"
      [] p = "b200" -> "rankdir"
      [] p = "b248" -> "forward"
      [] p = "b256" -> "backward"
      [] p = "b266" -> "update"
      [] p = "b276" -> "advance"
      [] p = "b309" -> "save_shard"
      [] p = "save_sync" -> "save_sched"
      [] p = "b322" -> "step_head"

\* where rank r continues after the barrier at point p
AfterBarrier(p, r) ==
    CASE p = "lf_bar1" -> IF r > 0 THEN "lf_work" ELSE "lf_bar2"
      [] p = "lf_bar2" -> "restore_check"
      [] p = "b195" -> IF r = 0 THEN "mkdir" ELSE "b200"
      [] p = "b200" -> "rankdir"
      [] p = "b248" -> "forward"
      [] p = "b256" -> "backward"
      [] p = "b266" -> "update"
      [] p = "b276" -> "advance"
      [] p = "b309" -> "save_shard"
      [] p = "save_sync" -> IF r = 0 THEN "save_sched" ELSE AfterWrite(r)
      [] p = "b322" -> "step_head"

Released_Alone(r) == TRUE

Released_IgnoresDead(r) == \A q \in Ranks \ {r} : bar[q] = "in" \/ pc[q] = "fatal"

Released_ForLeader(r) == r = 0 \/ \A q \in Ranks \ {r} : bar[q] = "in"

\* the barrier releases everybody when the last rank of the group arrives
Released(r) == \A q \in Ranks \ {r} : bar[q] = "in"

\* rank r calls the collective at its program point and blocks
BarrierArrive(r) ==
    /\ pc[r] \in BarrierPoints
    /\ bar[r] = "out"
    /\ bar' = IF Released(r) THEN [q \in Ranks |-> "go"] ELSE [bar EXCEPT ![r] = "in"]
    /\ lf_calls' = IF pc[r] \in {"lf_bar1", "lf_bar2"}
                   THEN [lf_calls EXCEPT ![r] = @ + 1] ELSE lf_calls
    /\ UNCHANGED <<cfg, lt, died, launch, pc, trainVars, diskVars,
                   cache, sawCache, train_data, work, fetchers, fetches>>

\* rank r returns from the collective; a timed barrier records a "waiting" sample
BarrierLeave(r) ==
    /\ pc[r] \in BarrierPoints
    /\ bar[r] = "go"
    /\ bar' = [bar EXCEPT ![r] = "out"]
    /\ pc' = [pc EXCEPT ![r] = AfterBarrier(pc[r], r)]
    /\ timers' = IF pc[r] \in TimedBarriers
                 THEN [timers EXCEPT ![r]["waiting"] = @ + 1] ELSE timers
    /\ UNCHANGED <<cfg, lt, died, launch, state, resumed, restored, loaded, ep_next, i_next, i_step,
                   pulled, batch, loss, updates, sched_steps, upd_since, info, diskVars, dataVars>>

\* ------------------------------------------------------------- rank0_first
LeaderFirstEntry_AllWork(r) == "lf_work"

LeaderFirstEntry_Inverted(r) == IF r # 0 THEN "lf_work" ELSE "lf_bar1"

\* rank = dist.get_rank(); if rank == 0: yield
LeaderFirstEntry(r) == IF r = 0 THEN "lf_work" ELSE "lf_bar1"

\* where the rank goes when the body of the with block returns
AfterWork(r) == IF r = 0 THEN "lf_bar1" ELSE "lf_bar2"

RankZeroFirstEnter(r) ==
    /\ pc[r] = "lf_enter"
    /\ pc' = [pc EXCEPT ![r] = LeaderFirstEntry(r)]
    /\ UNCHANGED <<cfg, lt, died, launch, bar, trainVars, diskVars, dataVars>>

\* _load_and_preprocess_data: datasets.load_dataset looks for the dataset in
\* cache_dir ...
WorkBegin(r) ==
    /\ pc[r] = "lf_work"
    /\ sawCache' = [sawCache EXCEPT ![r] = cache]
    /\ work' = [work EXCEPT ![r] = "started"]
    /\ pc' = [pc EXCEPT ![r] = "lf_working"]
    /\ UNCHANGED <<cfg, lt, died, launch, bar, trainVars, diskVars,
                   cache, train_data, lf_calls, fetchers, fetches>>

\* ... downloads it when it was not there, and returns the processed data
WorkEnd(r) ==
    /\ pc[r] = "lf_working"
    /\ cache' = TRUE
    /\ fetchers' = IF sawCache[r] THEN fetchers ELSE fetchers \cup {r}
    /\ fetches' = IF sawCache[r] THEN fetches ELSE fetches + 1
    /\ train_data' = [train_data EXCEPT ![r] = TRUE]
    /\ work' = [work EXCEPT ![r] = "done"]
    /\ pc' = [pc EXCEPT ![r] = AfterWork(r)]
    /\ UNCHANGED <<cfg, lt, died, launch, bar, trainVars, diskVars, sawCache, lf_calls>>

\* ------------------------------------------------------------ attempt resume
\* if (exp_dir / "state.json").exists():
RestoreCheck(r) ==
    /\ pc[r] = "restore_check"
    /\ pc' = [pc EXCEPT ![r] = IF Exists(stateJson) THEN "restore_shard" ELSE "b195"]
    /\ UNCHANGED <<cfg, lt, died, launch, bar, trainVars, diskVars, dataVars>>

\* load(dict(model=..., optimizer=...), checkpoint_id=exp_dir / "checkpoint"); set_state_dict
LoadShard(r) ==
    /\ pc[r] = "restore_shard"
    /\ IF IsWhole(shard[r])
       THEN /\ updates' = [updates EXCEPT ![r] = shard[r].val]
            /\ loaded' = [loaded EXCEPT ![r].shard = shard[r].save]
            /\ pc' = [pc EXCEPT ![r] = "restore_sched"]
       ELSE /\ pc' = [pc EXCEPT ![r] = "fatal"]
            /\ UNCHANGED <<updates, loaded>>
    /\ UNCHANGED <<cfg, lt, died, launch, bar, state, resumed, restored, ep_next, i_next, i_step,
                   pulled, batch, loss, sched_steps, upd_since, timers, info,
                   diskVars, dataVars>>

\* lr_scheduler.load_state_dict(torch.load(exp_dir / "lr_scheduler.pt"))
LoadScheduler(r) ==
    /\ pc[r] = "restore_sched"
    /\ IF IsWhole(sched)
       THEN /\ sched_steps' = [sched_steps EXCEPT ![r] = sched.val]
            /\ loaded' = [loaded EXCEPT ![r].sched = sched.save]
            /\ pc' = [pc EXCEPT ![r] = "restore_state"]
       ELSE /\ pc' = [pc EXCEPT ![r] = "fatal"]
            /\ UNCHANGED <<sched_steps, loaded>>
    /\ UNCHANGED <<cfg, lt, died, launch, bar, state, resumed, restored, ep_next, i_next, i_step,
                   pulled, batch, loss, updates, upd_since, timers, info,
                   diskVars, dataVars>>

\* with open(exp_dir / "state.json") as fp: state = json.load(fp); resumed = True
LoadState(r) ==
    /\ pc[r] = "restore_state"
    /\ IF IsWhole(stateJson)
       THEN /\ state' = [state EXCEPT ![r] = stateJson.val]
            /\ restored' = [restored EXCEPT ![r] = stateJson.val]
            /\ loaded' = [loaded EXCEPT ![r].state = stateJson.save]
            /\ resumed' = [resumed EXCEPT ![r] = TRUE]
            /\ pc' = [pc EXCEPT ![r] = "b195"]
       ELSE /\ pc' = [pc EXCEPT ![r] = "fatal"]
            /\ UNCHANGED <<state, restored, loaded, resumed>>
    /\ UNCHANGED <<cfg, lt, died, launch, bar, ep_next, i_next, i_step, pulled, batch, loss,
                   updates, sched_steps, upd_since, timers, info, diskVars, dataVars>>

\* if rank == 0: exp_dir.mkdir(parents=True, exist_ok=True)
MakeExpDir(r) ==
    /\ pc[r] = "mkdir"
    /\ expDir' = TRUE
    /\ pc' = [pc EXCEPT ![r] = "b200"]
    /\ UNCHANGED <<cfg, lt, died, launch, bar, trainVars, shard, sched, stateJson, dataVars>>

\* (exp_dir / f"rank-{rank}").mkdir(...); wandb.init on rank 0; timers = {...}
MakeRankDir(r) ==
    /\ pc[r] = "rankdir"
    /\ timers' = [timers EXCEPT ![r] = [k \in TimerNames |-> 0]]
    /\ pc' = [pc EXCEPT ![r] = "loop_enter"]
    /\ UNCHANGED <<cfg, lt, died, launch, bar, state, resumed, restored, loaded, ep_next, i_next,
                   i_step, pulled, batch, loss, updates, sched_steps, upd_since, info,
                   diskVars, dataVars>>

\* ------------------------------------------------------------- training loop
SkipStep_OffByOne(i, st) == i <= st.epoch_step

SkipStep_GlobalStep(i, st) == i < st.global_step

SkipStep_NotBelow(i, st) == i >= st.epoch_step

\* if i_step < state["epoch_step"]: continue
SkipStep(i, st) == i < st.epoch_step

AdvanceCounters_NoGlobal(st, l) ==
    [st EXCEPT !.epoch_step = @ + 1, !.running_loss = @ + l]

AdvanceCounters_Wraps(st, l) ==
    [st EXCEPT !.global_step = @ + 1, !.epoch_step = (@ + 1) % cfg.batches,
               !.running_loss = @ + l]

AdvanceCounters_NoLoss(st, l) ==
    [st EXCEPT !.global_step = @ + 1, !.epoch_step = @ + 1]

\* state["global_step"] += 1; state["epoch_step"] += 1; state["running_loss"] += loss
AdvanceCounters(st, l) ==
    [st EXCEPT !.global_step = @ + 1, !.epoch_step = @ + 1, !.running_loss = @ + l]

\* if state["global_step"] % args.log_freq == 0
LogDue(st) == st.global_step % cfg.log_freq = 0

CkptDue_NotAtEpochEnd(st) ==
    st.global_step % cfg.ckpt_freq = 0 /\ st.epoch_step < cfg.batches

\* if state["global_step"] % args.ckpt_freq == 0
CkptDue(st) == st.global_step % cfg.ckpt_freq = 0

EpochReset_Missing(st) == st

\* state["epoch_step"] = 0
EpochReset(st) == [st EXCEPT !.epoch_step = 0]

\* range(state["epoch"], args.num_epochs) is built once, from the state after the restore
EpochLoopEnter(r) ==
    /\ pc[r] = "loop_enter"
    /\ ep_next' = [ep_next EXCEPT ![r] = state[r].epoch]
    /\ pc' = [pc EXCEPT ![r] = "epoch_head"]
    /\ UNCHANGED <<cfg, lt, died, launch, bar, state, resumed, restored, loaded, i_next, i_step,
                   pulled, batch, loss, updates, sched_steps, upd_since, timers, info,
                   diskVars, dataVars>>

\* for state["epoch"] in range(...): batches = iter(dataloader); the loop variable
\* keeps its last value when the range is exhausted
EpochHead(r) ==
    /\ pc[r] = "epoch_head"
    /\ IF ep_next[r] < cfg.num_epochs
       THEN /\ state' = [state EXCEPT ![r].epoch = ep_next[r]]
            /\ ep_next' = [ep_next EXCEPT ![r] = @ + 1]
            /\ i_next' = [i_next EXCEPT ![r] = 0]
            /\ pulled' = [pulled EXCEPT ![r] = 0]
            /\ pc' = [pc EXCEPT ![r] = "step_head"]
       ELSE /\ pc' = [pc EXCEPT ![r] = "done"]
            /\ UNCHANGED <<state, ep_next, i_next, pulled>>
    /\ UNCHANGED <<cfg, lt, died, launch, bar, resumed, restored, loaded, i_step, batch, loss,
                   updates, sched_steps, upd_since, timers, info, diskVars, dataVars>>

\* for i_step in range(len(dataloader)):
StepHead(r) ==
    /\ pc[r] = "step_head"
    /\ IF i_next[r] < cfg.batches
       THEN /\ i_step' = [i_step EXCEPT ![r] = i_next[r]]
            /\ i_next' = [i_next EXCEPT ![r] = @ + 1]
            /\ pc' = [pc EXCEPT ![r] = "data"]
       ELSE /\ pc' = [pc EXCEPT ![r] = "epoch_end"]
            /\ UNCHANGED <<i_step, i_next>>
    /\ UNCHANGED <<cfg, lt, died, launch, bar, state, resumed, restored, loaded, ep_next, pulled,
                   batch, loss, updates, sched_steps, upd_since, timers, info,
                   diskVars, dataVars>>

\* with timers["data"]: batch = next(batches), moved to the device;
\* if i_step < state["epoch_step"]: continue
DataStage(r) ==
    /\ pc[r] = "data"
    /\ batch' = [batch EXCEPT ![r] = pulled[r]]
    /\ pulled' = [pulled EXCEPT ![r] = @ + 1]
    /\ timers' = [timers EXCEPT ![r]["data"] = @ + 1]
    /\ pc' = [pc EXCEPT ![r] = IF SkipStep(i_step[r], state[r]) THEN "step_head" ELSE "b248"]
    /\ UNCHANGED <<cfg, lt, died, launch, bar, state, resumed, restored, loaded, ep_next, i_next,
                   i_step, loss, updates, sched_steps, upd_since, info, diskVars, dataVars>>

\* with timers["forward"]: outputs = model(**batch)
Forward(r) ==
    /\ pc[r] = "forward"
    /\ loss' = [loss EXCEPT ![r] = LossOf(r, batch[r])]
    /\ timers' = [timers EXCEPT ![r]["forward"] = @ + 1]
    /\ pc' = [pc EXCEPT ![r] = "b256"]
    /\ UNCHANGED <<cfg, lt, died, launch, bar, state, resumed, restored, loaded, ep_next, i_next,
                   i_step, pulled, batch, updates, sched_steps, upd_since, info,
                   diskVars, dataVars>>

\* with timers["backward"]: optimizer.zero_grad(); outputs.loss.backward()
Backward(r) ==
    /\ pc[r] = "backward"
    /\ timers' = [timers EXCEPT ![r]["backward"] = @ + 1]
    /\ pc' = [pc EXCEPT ![r] = "b266"]
    /\ UNCHANGED <<cfg, lt, died, launch, bar, state, resumed, restored, loaded, ep_next, i_next,
                   i_step, pulled, batch, loss, updates, sched_steps, upd_since, info,
                   diskVars, dataVars>>

\* with timers["update"]: optimizer.step(); lr_scheduler.step()
Update(r) ==
    /\ pc[r] = "update"
    /\ updates' = [updates EXCEPT ![r] = @ + 1]
    /\ sched_steps' = [sched_steps EXCEPT ![r] = @ + 1]
    /\ upd_since' = [upd_since EXCEPT ![r] = @ + 1]
    /\ timers' = [timers EXCEPT ![r]["update"] = @ + 1]
    /\ pc' = [pc EXCEPT ![r] = "b276"]
    /\ UNCHANGED <<cfg, lt, died, launch, bar, state, resumed, restored, loaded, ep_next, i_next,
                   i_step, pulled, batch, loss, info, diskVars, dataVars>>

\* after the barrier that follows the update stage: the counters advance; the metrics
\* branch reads avg_elapsed_ms() of every timer, which divides by the number of its
\* samples (a ZeroDivisionError ends the process), and resets running_loss and the
\* timers; the checkpoint branch goes to the barrier before the write
StepDone(r) ==
    /\ pc[r] = "advance"
    /\ LET st == AdvanceCounters(state[r], loss[r]) IN
       IF ~LogDue(st)
       THEN /\ state' = [state EXCEPT ![r] = st]
            /\ pc' = [pc EXCEPT ![r] = IF CkptDue(st) THEN BeforeWrite(r) ELSE "step_head"]
            /\ UNCHANGED <<info, timers>>
       ELSE IF \E k \in TimerNames : timers[r][k] = 0
       THEN /\ state' = [state EXCEPT ![r] = st]
            /\ pc' = [pc EXCEPT ![r] = "fatal"]
            /\ UNCHANGED <<info, timers>>
       ELSE /\ info' = [info EXCEPT ![r] = [step |-> st.global_step,
                                             running_loss |-> st.running_loss]]
            /\ state' = [state EXCEPT ![r] = [st EXCEPT !.running_loss = 0]]
            /\ timers' = [timers EXCEPT ![r] = [k \in TimerNames |-> 0]]
            /\ pc' = [pc EXCEPT ![r] = IF CkptDue(st) THEN BeforeWrite(r) ELSE "step_head"]
    /\ UNCHANGED <<cfg, lt, died, launch, bar, resumed, restored, loaded, ep_next, i_next, i_step,
                   pulled, batch, loss, updates, sched_steps, upd_since, diskVars, dataVars>>

\* state["epoch_step"] = 0, after the step loop
EpochEnd(r) ==
    /\ pc[r] = "epoch_end"
    /\ state' = [state EXCEPT ![r] = EpochReset(state[r])]
    /\ pc' = [pc EXCEPT ![r] = "epoch_head"]
    /\ UNCHANGED <<cfg, lt, died, launch, bar, resumed, restored, loaded, ep_next, i_next, i_step,
                   pulled, batch, loss, updates, sched_steps, upd_since, timers, info,
                   diskVars, dataVars>>

\* ------------------------------------------------------------ checkpoint save
\* the save() call rank r is in
SaveId(r) == <<launch, state[r].global_step>>

\* save(dict(model=..., optimizer=...), checkpoint_id=exp_dir / "checkpoint"): every rank
\* writes the blob of its own shard; the file is truncated, then filled
ShardWriteBegin(r) ==
    /\ pc[r] = "save_shard"
    /\ shard' = [shard EXCEPT ![r] = Partial]
    /\ pc' = [pc EXCEPT ![r] = "save_shard_w"]
    /\ UNCHANGED <<cfg, lt, died, launch, bar, trainVars, sched, stateJson, expDir, dataVars>>

\* the shard is whole; save() is a collective and returns on no rank before every
\* rank has written (the program point "save_sync")
ShardWriteEnd(r) ==
    /\ pc[r] = "save_shard_w"
    /\ shard' = [shard EXCEPT ![r] = Blob(SaveId(r), updates[r])]
    /\ pc' = [pc EXCEPT ![r] = "save_sync"]
    /\ UNCHANGED <<cfg, lt, died, launch, bar, trainVars, sched, stateJson, expDir, dataVars>>

\* if rank == 0: torch.save(lr_scheduler.state_dict(), exp_dir / "lr_scheduler.pt")
SchedWriteBegin(r) ==
    /\ pc[r] = "save_sched"
    /\ sched' = Partial
    /\ pc' = [pc EXCEPT ![r] = "save_sched_w"]
    /\ UNCHANGED <<cfg, lt, died, launch, bar, trainVars, shard, stateJson, expDir, dataVars>>

SchedWriteEnd(r) ==
    /\ pc[r] = "save_sched_w"
    /\ sched' = Blob(SaveId(r), sched_steps[r])
    /\ pc' = [pc EXCEPT ![r] = "save_state"]
    /\ UNCHANGED <<cfg, lt, died, launch, bar, trainVars, shard, stateJson, expDir, dataVars>>

\* with open(exp_dir / "state.json", "w") as fp: json.dump(state, fp)
StateWriteBegin(r) ==
    /\ pc[r] = "save_state"
    /\ stateJson' = Partial
    /\ pc' = [pc EXCEPT ![r] = "save_state_w"]
    /\ UNCHANGED <<cfg, lt, died, launch, bar, trainVars, shard, sched, expDir, dataVars>>

StateWriteEnd(r) ==
    /\ pc[r] = "save_state_w"
    /\ stateJson' = Blob(SaveId(r), state[r])
    /\ pc' = [pc EXCEPT ![r] = AfterWrite(r)]
    /\ UNCHANGED <<cfg, lt, died, launch, bar, trainVars, shard, sched, expDir, dataVars>>

\* ------------------------------------------------------------------ the job
\* every process starts main() anew; the storage and the cache are what was left
Restart ==
    /\ launch < MaxLaunches
    /\ launch' = launch + 1
    /\ UNCHANGED <<lt, diskVars, cache, fetchers, fetches>>
    /\ pc' = Fresh.pc
    /\ bar' = Fresh.bar
    /\ state' = Fresh.state
    /\ resumed' = Fresh.resumed
    /\ restored' = Fresh.restored
    /\ loaded' = Fresh.loaded
    /\ ep_next' = Fresh.ep_next
    /\ i_next' = Fresh.i_next
    /\ i_step' = Fresh.i_step
    /\ pulled' = Fresh.pulled
    /\ batch' = Fresh.batch
    /\ loss' = Fresh.loss
    /\ updates' = Fresh.updates
    /\ sched_steps' = Fresh.sched_steps
    /\ upd_since' = Fresh.upd_since
    /\ timers' = Fresh.timers
    /\ info' = Fresh.info
    /\ sawCache' = Fresh.sawCache
    /\ train_data' = Fresh.train_data
    /\ work' = Fresh.work
    /\ lf_calls' = Fresh.lf_calls
    /\ died' = Fresh.died

\* the job is killed (a crash, a preemption, or after it ended) and launched again with
\* the same arguments
Relaunch == Restart /\ UNCHANGED cfg

\* the job is launched again with another --num-epochs
RelaunchWithBudget(e) ==
    /\ e # cfg.num_epochs
    /\ Restart
    /\ cfg' = [cfg EXCEPT !.num_epochs = e]

Next ==
    \/ \E r \in Ranks : RankZeroFirstEnter(r)
    \/ \E r \in Ranks : WorkBegin(r)
    \/ \E r \in Ranks : WorkEnd(r)
    \/ \E r \in Ranks : BarrierArrive(r)
    \/ \E r \in Ranks : BarrierLeave(r)
    \/ \E r \in Ranks : RestoreCheck(r)
    \/ \E r \in Ranks : LoadShard(r)
    \/ \E r \in Ranks : LoadScheduler(r)
    \/ \E r \in Ranks : LoadState(r)
    \/ \E r \in Ranks : MakeExpDir(r)
    \/ \E r \in Ranks : MakeRankDir(r)
    \/ \E r \in Ranks : EpochLoopEnter(r)
    \/ \E r \in Ranks : EpochHead(r)
    \/ \E r \in Ranks : StepHead(r)
    \/ \E r \in Ranks : DataStage(r)
    \/ \E r \in Ranks : Forward(r)
    \/ \E r \in Ranks : Backward(r)
    \/ \E r \in Ranks : Update(r)
    \/ \E r \in Ranks : StepDone(r)
    \/ \E r \in Ranks : ShardWriteBegin(r)
    \/ \E r \in Ranks : ShardWriteEnd(r)
    \/ \E r \in Ranks : SchedWriteBegin(r)
    \/ \E r \in Ranks : SchedWriteEnd(r)
    \/ \E r \in Ranks : StateWriteBegin(r)
    \/ \E r \in Ranks : StateWriteEnd(r)
    \/ \E r \in Ranks : EpochEnd(r)
    \/ Relaunch

Spec == Init /\ [][Next]_vars

\* ------------------------------------------------------- a worker terminates
\* the program points of a save(), after the barrier before it
SavePcs ==
    {"save_shard", "save_shard_w", "save_sync", "save_sched", "save_sched_w",
     "save_state", "save_state_w", "b322"}

\* the program points of the loop at which the worker is in no checkpoint branch
OutsideSavePcs ==
    {"step_head", "data", "b248", "forward", "b256", "backward", "b266", "update",
     "b276", "advance", "epoch_end", "epoch_head", "done"}

\* the program points of the training loop
LoopPcs == (OutsideSavePcs \ {"done"}) \cup SavePcs \cup {"b309"}

\* the process of rank r ends inside the training loop (an error of a compute stage, a
\* kill); when it was blocked in a collective, its call may or may not count for the
\* other ranks
Terminate(r) ==
    /\ pc[r] \in LoopPcs
    /\ \A q \in Ranks : died[q] = "no"
    /\ died' = [died EXCEPT ![r] = pc[r]]
    /\ pc' = [pc EXCEPT ![r] = "fatal"]
    /\ bar' \in IF bar[r] = "in" THEN {bar, [bar EXCEPT ![r] = "out"]} ELSE {bar}
    /\ UNCHANGED <<cfg, lt, launch, trainVars, diskVars, dataVars>>

FailNext ==
    \/ Next
    \/ \E r \in Ranks : Terminate(r)

\* the job, in which one worker of a launch may terminate
FailSpec == Init /\ [][FailNext]_vars

\* --------------------------------------------------- the job, its workers running
\* every action of rank r
RankStep(r) ==
    \/ RankZeroFirstEnter(r) \/ WorkBegin(r) \/ WorkEnd(r)
    \/ BarrierArrive(r) \/ BarrierLeave(r)
    \/ RestoreCheck(r) \/ LoadShard(r) \/ LoadScheduler(r) \/ LoadState(r)
    \/ MakeExpDir(r) \/ MakeRankDir(r)
    \/ EpochLoopEnter(r) \/ EpochHead(r) \/ StepHead(r) \/ DataStage(r)
    \/ Forward(r) \/ Backward(r) \/ Update(r) \/ StepDone(r)
    \/ ShardWriteBegin(r) \/ ShardWriteEnd(r) \/ SchedWriteBegin(r) \/ SchedWriteEnd(r)
    \/ StateWriteBegin(r) \/ StateWriteEnd(r) \/ EpochEnd(r)

LiveNext ==
    \/ Next
    \/ \E e \in 1 .. MaxEpochs : RelaunchWithBudget(e)

\* the job, launched again with the same or another epoch budget, in which every process
\* that can take a step eventually takes one (a process stops only when it is blocked in
\* a collective, has ended or has failed)
LiveSpec ==
    /\ Init
    /\ [][LiveNext]_vars
    /\ \A r \in 0 .. (MaxWorld - 1) : WF_vars(r \in Ranks /\ RankStep(r))

\* --------------------------------------------------- a LocalTimer and its user
\* time.time() advances
TimerTick ==
    /\ lt.now < MaxClock
    /\ lt' = [lt EXCEPT !.now = @ + 1]
    /\ UNCHANGED progVars

\* with timer: __enter__ is called and the body begins
TimerEnter ==
    /\ lt.at = "idle"
    /\ Len(lt.measurements) < MaxSamples
    /\ lt' = [Enter(lt) EXCEPT !.at = "body", !.last = "enter"]
    /\ UNCHANGED progVars

\* the body of the with statement returns
BodyReturns ==
    /\ lt.at = "body"
    /\ lt' = [lt EXCEPT !.at = "returned"]
    /\ UNCHANGED progVars

\* the body of the with statement raises an error
BodyRaises ==
    /\ lt.at = "body"
    /\ lt' = [lt EXCEPT !.at = "raised"]
    /\ UNCHANGED progVars

\* the with statement calls __exit__, with a traceback when the body raised
TimerExit ==
    /\ lt.at \in {"returned", "raised"}
    /\ lt' = [Exit(lt, lt.at = "raised") EXCEPT
                 !.at = "idle",
                 !.last = IF lt.at = "raised" THEN "exit_error" ELSE "exit"]
    /\ UNCHANGED progVars

\* for t in timers.values(): t.reset(), called outside the with statements
TimerReset ==
    /\ lt.at = "idle"
    /\ lt' = [Reset(lt) EXCEPT !.last = "reset"]
    /\ UNCHANGED progVars

TimerNext ==
    \/ TimerTick
    \/ TimerEnter
    \/ BodyReturns
    \/ BodyRaises
    \/ TimerExit
    \/ TimerReset

\* one LocalTimer used by with statements whose bodies return or raise
TimerSpec == Init /\ [][TimerNext]_vars

\* ------------------------------------------------- the scenario of one fresh run
\* world_size=4, len(dataloader)=10, --ckpt-freq 5, one epoch
Scenario ==
    [world_size |-> 4, batches |-> 10, num_epochs |-> 1, log_freq |-> 5, ckpt_freq |-> 5]

ScenarioInit == cfg = Scenario /\ FreshJob

\* a launch on empty storage that nobody interrupts: the steps of main() without the
\* loads of the resume
ScenarioNext ==
    \/ \E r \in Ranks : RankZeroFirstEnter(r)
    \/ \E r \in Ranks : WorkBegin(r)
    \/ \E r \in Ranks : WorkEnd(r)
    \/ \E r \in Ranks : BarrierArrive(r)
    \/ \E r \in Ranks : BarrierLeave(r)
    \/ \E r \in Ranks : RestoreCheck(r)
    \/ \E r \in Ranks : MakeExpDir(r)
    \/ \E r \in Ranks : MakeRankDir(r)
    \/ \E r \in Ranks : EpochLoopEnter(r)
    \/ \E r \in Ranks : EpochHead(r)
    \/ \E r \in Ranks : StepHead(r)
    \/ \E r \in Ranks : DataStage(r)
    \/ \E r \in Ranks : Forward(r)
    \/ \E r \in Ranks : Backward(r)
    \/ \E r \in Ranks : Update(r)
    \/ \E r \in Ranks : StepDone(r)
    \/ \E r \in Ranks : ShardWriteBegin(r)
    \/ \E r \in Ranks : ShardWriteEnd(r)
    \/ \E r \in Ranks : SchedWriteBegin(r)
    \/ \E r \in Ranks : SchedWriteEnd(r)
    \/ \E r \in Ranks : StateWriteBegin(r)
    \/ \E r \in Ranks : StateWriteEnd(r)
    \/ \E r \in Ranks : EpochEnd(r)

ScenarioSpec == ScenarioInit /\ [][ScenarioNext]_vars

\* ============================================================ the claims
Max(a, b) == IF a >= b THEN a ELSE b

\* every part of the checkpoint record is whole and was written by the save() `id`
RecordOf(id) ==
    /\ \A q \in Ranks : IsWhole(shard[q]) /\ shard[q].save = id
    /\ IsWhole(sched) /\ sched.save = id
    /\ IsWhole(stateJson) /\ stateJson.save = id

\* rank r is past the boundary of the save made at its global_step in this launch
PastBoundary(r) ==
    /\ pc[r] \in OutsideSavePcs
    /\ state[r].global_step > restored[r].global_step
    /\ CkptDue(state[r])

\* rank r has begun to write in a save that is not over
Writing(r) ==
    pc[r] \in {"save_shard_w", "save_sync", "save_sched", "save_sched_w",
               "save_state", "save_state_w"}

\* rank q has arrived at the barrier before the write of the save rank r is in
ArrivedFor(q, r) ==
    /\ state[q].global_step = state[r].global_step
    /\ \/ pc[q] = "b309" /\ bar[q] \in {"in", "go"}
       \/ pc[q] \in SavePcs

\* C1: in the collective checkpoint save no worker is past the barrier after the write
\* unless every shard, the scheduler blob and the TrainingState document are whole and
\* were written by that very save, and no worker writes before every worker has arrived
\* at the barrier before the write.
C1_SaveBetweenBarriers ==
    \A r \in Ranks :
        /\ PastBoundary(r) => RecordOf(SaveId(r))
        /\ Writing(r) => \A q \in Ranks : ArrivedFor(q, r)

\* a worker goes on after a save that replaced the record of an earlier launch
C1_Witness ==
    \E r \in Ranks : PastBoundary(r) /\ pc[r] = "data" /\ launch = 2 /\ resumed[r]

\* rank r has just returned from the restore with resumed = True
Restored(r) == pc[r] = "b195" /\ resumed[r]

\* C2: after a crash during a save() that left the shards of the record from different
\* saves, the restore of the next launch does not return resumed = True: whenever the
\* workers have resumed, all shards of the record are whole and come from one save.
C2_PartialSaveDetected ==
    (\A r \in Ranks : Restored(r)) =>
        \E q0 \in Ranks : \A q \in Ranks :
            IsWhole(shard[q]) /\ shard[q].save = shard[q0].save

\* C3: whenever the workers have resumed, the shard of every worker, the scheduler state
\* and the TrainingState they loaded were written by one save(), and the restored
\* global_step is the number of optimizer updates in every shard.
C3_RestoreIsOneSave ==
    (\A r \in Ranks : Restored(r)) =>
        \A r \in Ranks :
            /\ loaded[r].shard = loaded[r].state
            /\ loaded[r].sched = loaded[r].state
            /\ updates[r] = state[r].global_step

\* the program points of an executed step, before its counters advance
ExecPcs == {"b248", "forward", "b256", "backward", "b266", "update", "b276", "advance"}

\* the first batch index of the current epoch that is not fast-forwarded
Floor(r) == IF state[r].epoch = restored[r].epoch THEN restored[r].epoch_step ELSE 0

\* the counters of rank r are those of the uninterrupted run at (epoch, index k)
OnTrajectory(r, k) ==
    /\ state[r].epoch_step = k
    /\ state[r].global_step = state[r].epoch * cfg.batches + k

\* C4: resume idempotence. Whatever checkpoint (e, s, g) a run starts from (none: the
\* zero state), compute runs on exactly the batch indices s..batches-1 of epoch e and on
\* every index of the later epochs, on the batch of that index, and at every program
\* point of the loop (epoch, epoch_step, global_step) are the values the uninterrupted
\* run has there, also for s = batches; every saved TrainingState is on that trajectory.
C4_ResumeIdempotence ==
    /\ \A r \in Ranks :
        /\ pc[r] = "step_head" => OnTrajectory(r, Max(i_next[r], Floor(r)))
        /\ pc[r] = "data" => OnTrajectory(r, Max(i_step[r], Floor(r)))
        /\ pc[r] \in ExecPcs =>
              /\ OnTrajectory(r, i_step[r])
              /\ i_step[r] >= Floor(r)
              /\ batch[r] = i_step[r]
        /\ pc[r] \in SavePcs \cup {"b309"} => OnTrajectory(r, i_step[r] + 1)
        /\ pc[r] = "epoch_end" => OnTrajectory(r, cfg.batches)
        /\ (pc[r] \in {"epoch_head", "done"} /\ ep_next[r] > restored[r].epoch) =>
              /\ state[r].epoch = ep_next[r] - 1
              /\ state[r].epoch_step = 0
              /\ state[r].global_step = ep_next[r] * cfg.batches
    /\ IsWhole(stateJson) =>
          /\ stateJson.val.global_step =
                 stateJson.val.epoch * cfg.batches + stateJson.val.epoch_step
          /\ stateJson.val.epoch_step \in 1 .. cfg.batches

\* a run restored from a checkpoint of the last step of an epoch computes again
C4_Witness ==
    \E r \in Ranks :
        resumed[r] /\ restored[r].epoch_step = cfg.batches /\ pc[r] = "forward"

\* rank r is in the first epoch after a restore, at a batch index below the restored one
FastForward(r) ==
    /\ resumed[r]
    /\ state[r].epoch = restored[r].epoch
    /\ i_step[r] < restored[r].epoch_step

\* the step of rank r from the data stage
C5_Step(r) ==
    (pc[r] = "data" /\ pc'[r] # "data" /\ launch' = launch) =>
        IF FastForward(r)
        THEN /\ pc'[r] = "step_head"
             /\ pulled'[r] = pulled[r] + 1
             /\ batch'[r] = i_step[r]
             /\ bar'[r] = bar[r]
             /\ state'[r] = state[r]
             /\ loss'[r] = loss[r]
             /\ updates'[r] = updates[r]
             /\ sched_steps'[r] = sched_steps[r]
             /\ info'[r] = info[r]
             /\ \A k \in TimerNames \ {"data"} : timers'[r][k] = timers[r][k]
             /\ diskVars' = diskVars
        ELSE /\ pc'[r] = "b248"
             /\ (resumed[r] /\ upd_since[r] = 0) =>
                   \/ /\ state[r].epoch = restored[r].epoch
                      /\ i_step[r] = restored[r].epoch_step
                   \/ /\ restored[r].epoch_step = cfg.batches
                      /\ state[r].epoch = restored[r].epoch + 1
                      /\ i_step[r] = 0

\* C5: resume fast-forward. In the first epoch after a restore with epoch_step = s every
\* batch index below s is pulled and nothing else happens for it (no barrier, compute,
\* metrics or checkpoint, counters and running_loss unchanged); every other index of
\* every epoch goes on to the barrier and the compute, and the first of them after a
\* restore is s (index 0 of the next epoch when s = batches).
C5_FastForward == [][\A r \in Ranks : C5_Step(r)]_vars

\* a rank restored in mid-epoch has skipped the batches below the restored index
C5_Witness ==
    \E r \in Ranks :
        /\ resumed[r] /\ pc[r] = "step_head" /\ upd_since[r] = 0
        /\ pulled[r] > 0 /\ pulled[r] = restored[r].epoch_step
        /\ restored[r].epoch_step < cfg.batches

\* C6 as stated: in every reachable state, and in every TrainingState written by a
\* checkpoint, 0 <= epoch_step < batches_per_epoch.
C6_EpochStepBelowBatches ==
    /\ \A r \in Ranks : state[r].epoch_step >= 0 /\ state[r].epoch_step < cfg.batches
    /\ IsWhole(stateJson) => stateJson.val.epoch_step < cfg.batches

\* rank r is between the counter advance of the last step of an epoch and the reset
AfterLastStep(r) ==
    /\ i_step[r] = cfg.batches - 1
    /\ i_next[r] = cfg.batches
    /\ state[r].global_step > restored[r].global_step
    /\ pc[r] \in SavePcs \cup {"b309", "step_head", "epoch_end"}

\* rank r was restored from a checkpoint of a last step and has not reset since
RestoredAtEnd(r) ==
    /\ resumed[r]
    /\ restored[r].epoch_step = cfg.batches
    /\ state[r].global_step = restored[r].global_step
    /\ pc[r] \in {"b195", "mkdir", "b200", "rankdir", "loop_enter", "epoch_head",
                   "step_head", "data", "epoch_end"}

\* C6 amended: 0 <= epoch_step <= batches_per_epoch in every reachable state, with
\* epoch_step = batches_per_epoch only from the counter advance of the last step of an
\* epoch to the epoch-boundary reset, and in a run restored from a checkpoint of such a
\* step until its first reset; a written TrainingState has 1 <= epoch_step <= batches.
C6_EpochStepRange ==
    /\ \A r \in Ranks :
        /\ state[r].epoch_step >= 0
        /\ state[r].epoch_step <= cfg.batches
        /\ state[r].epoch_step = cfg.batches => (AfterLastStep(r) \/ RestoredAtEnd(r))
    /\ IsWhole(stateJson) => stateJson.val.epoch_step \in 1 .. cfg.batches

\* the checkpoint of a last step holds epoch_step = batches, as does the rank after it
C6_Witness ==
    \E r \in Ranks :
        /\ pc[r] = "epoch_end" /\ state[r].epoch_step = cfg.batches
        /\ IsWhole(stateJson) /\ stateJson.val.epoch_step = cfg.batches

\* optimizer updates of rank r in this launch that its global_step has counted
Counted(r) == IF pc[r] \in {"b276", "advance"} THEN upd_since[r] - 1 ELSE upd_since[r]

C7_State ==
    \A r \in Ranks :
        /\ state[r].global_step >= state[r].epoch_step
        /\ state[r].global_step = restored[r].global_step + Counted(r)

C7_Step ==
    \A r \in Ranks :
        launch' = launch =>
            /\ state'[r].global_step >= state[r].global_step
            /\ state'[r].global_step # state[r].global_step =>
                  \/ pc[r] = "restore_state"
                  \/ /\ pc[r] = "advance"
                     /\ state'[r].global_step = state[r].global_step + 1

\* C7: on every worker global_step never decreases during a run, is >= epoch_step, and
\* is the restored global_step plus the optimizer updates made since the start, the
\* update of the step in progress being counted once the worker is past the barrier
\* after the update stage; apart from the restore it changes only there, by one, and so
\* never on a skipped step.
C7_GlobalStep == []C7_State /\ [][C7_Step]_vars

\* a restored worker has made its second update and not yet counted it
C7_Witness ==
    \E r \in Ranks :
        resumed[r] /\ restored[r].global_step > 0 /\ upd_since[r] = 2 /\ pc[r] = "b276"

\* C8: lock step. Whenever a barrier releases, all workers are at the same program
\* point with the same (epoch, epoch_step, global_step): every barrier call is matched
\* by the same call of the same step on every worker, so the metrics branch and the
\* checkpoint branch are taken by all workers at the same global_step.
C8_LockStep ==
    (\A r \in Ranks : bar[r] = "go") =>
        \A r, q \in Ranks :
            /\ pc[r] = pc[q]
            /\ state[r].epoch = state[q].epoch
            /\ state[r].epoch_step = state[q].epoch_step
            /\ state[r].global_step = state[q].global_step
            /\ i_step[r] = i_step[q]

\* the barrier after the write of a save releases in a restored run
C8_Witness ==
    /\ \A r \in Ranks : bar[r] = "go" /\ pc[r] = "b322" /\ resumed[r]
    /\ \E r \in Ranks : state[r].global_step > restored[r].global_step

\* the program points inside rank0_first
HelperPcs == {"lf_enter", "lf_work", "lf_working", "lf_bar1", "lf_bar2"}

LeftHelper(r) == pc[r] \notin HelperPcs

\* C9: leader-first execution. Rank 0 has finished the unit of work before any other
\* rank starts it; no rank (rank 0 included) leaves the helper before every rank has
\* finished the work; every rank calls the barrier twice, no more.
C9_LeaderFirst ==
    \A r \in Ranks :
        /\ (r # 0 /\ work[r] # "none") => work[0] = "done"
        /\ LeftHelper(r) => \A q \in Ranks : work[q] = "done"
        /\ LeftHelper(r) => lf_calls[r] = 2
        /\ lf_calls[r] <= 2

\* the leader has left the helper while another rank is still in its second barrier
C9_Witness ==
    /\ LeftHelper(0)
    /\ \E q \in Ranks : q # 0 /\ pc[q] = "lf_bar2" /\ work[q] = "done"

\* C10: only rank 0 ever downloads the shared dataset, it does so once, and every rank
\* that leaves the helper holds the data, the other ranks having found rank 0's
\* download in the cache.
C10_OneFetch ==
    /\ fetchers \subseteq {0}
    /\ fetches <= 1
    /\ \A r \in Ranks :
          LeftHelper(r) =>
              /\ fetchers = {0} /\ fetches = 1
              /\ cache /\ train_data[r]
              /\ r # 0 => sawCache[r]

\* a rank other than 0 goes on with the data rank 0 fetched
C10_Witness ==
    \E r \in Ranks :
        r # 0 /\ pc[r] = "restore_check" /\ train_data[r] /\ fetchers = {0} /\ launch = 1

\* the with statement whose body raised has just called __exit__
ErrorExit == lt.at = "raised" /\ lt'.at = "idle"

\* the with statement whose body returned has just called __exit__
NormalExit == lt.at = "returned" /\ lt'.at = "idle"

C11_Step ==
    /\ ErrorExit => lt'.measurements = lt.measurements /\ lt'.start_time = None
    /\ NormalExit => /\ lt'.measurements = Append(lt.measurements, lt.now - lt.start_time[1])
                     /\ lt'.start_time = None
    /\ lt'.measurements # lt.measurements =>
          \/ NormalExit
          \/ lt.at = "idle" /\ lt'.last = "reset" /\ lt'.measurements = <<>>

\* C11: timer scoped region. When the bracketed stage exits with an error, no sample is
\* appended and the start mark is cleared; when it exits normally exactly one sample
\* (the time since the start mark) is appended; the sample list changes in no other way,
\* except that reset() empties it.
C11_TimerRegion == [][C11_Step]_vars

\* a stage has raised after a sample was recorded: the list still holds that one sample
C11_Witness ==
    lt.last = "exit_error" /\ Len(lt.measurements) = 1 /\ lt.start_time = None

\* rank r is in the checkpoint branch
InSave(r) == pc[r] \in SavePcs \cup {"b309"}

\* C12 as stated: in the scenario the fresh run saves once within the first epoch, at
\* global_step = 5: a worker in the checkpoint branch is at global_step 5.
C12_SavesOnceAtFive ==
    \A r \in Ranks : (InSave(r) /\ state[r].epoch = 0) => state[r].global_step = 5

\* C12 amended: in the scenario (world_size 4, 10 batches, checkpoint interval 5) the
\* fresh run saves twice within the first epoch, at global_step 5 and at global_step 10:
\* no worker is in the checkpoint branch at another step, the storage is empty before
\* step 5, holds the record of step 5 from there to step 10, and the record of step 10,
\* with epoch 0 and epoch_step 10, when the epoch's step loop is over.
C12_SavesAtFiveAndTen ==
    /\ \A r \in Ranks :
          /\ InSave(r) => state[r].global_step \in {5, 10} /\ state[r].epoch = 0
          /\ (pc[r] \in OutsideSavePcs /\ state[r].global_step \in 5 .. 9) =>
                RecordOf(<<1, 5>>)
          /\ (pc[r] \in OutsideSavePcs /\ state[r].global_step = 10) =>
                /\ RecordOf(<<1, 10>>)
                /\ stateJson.val.epoch = 0
                /\ stateJson.val.epoch_step = 10
    /\ (\A r \in Ranks : state[r].global_step < 5) =>
          /\ \A q \in Ranks : shard[q] = Absent
          /\ sched = Absent /\ stateJson = Absent

\* the second save of the first epoch: a worker writes its shard at global_step 10
C12_Witness ==
    \E r \in Ranks :
        /\ pc[r] = "save_shard_w" /\ state[r].global_step = 10 /\ state[r].epoch = 0
        /\ i_step[r] = 9 /\ cfg = Scenario

\* the stages of the step in progress that rank r has finished: 1 when its batch is on
\* the device, 2 after Forward, 3 after Backward, 4 after Update
Phase(r) ==
    CASE pc[r] \in {"b248", "forward"} -> 1
      [] pc[r] \in {"b256", "backward"} -> 2
      [] pc[r] \in {"b266", "update"} -> 3
      [] pc[r] \in {"b276", "advance"} -> 4
      [] OTHER -> 0

\* how far rank r has come: five units for every step it has counted
Progress(r) == 5 * state[r].global_step + Phase(r)

\* the stages of the step in progress every worker must have finished, given that rank
\* r is where it is: 1 once r may start Forward, 2 for Backward, 3 for Update, 4 once it
\* may advance its counters
Need(r) ==
    CASE pc[r] \in {"forward", "b256"} -> 1
      [] pc[r] \in {"backward", "b266"} -> 2
      [] pc[r] \in {"update", "b276"} -> 3
      [] pc[r] = "advance" -> 4
      [] OTHER -> 0

\* C13: stage ordering across workers. For every executed step, a worker that has started
\* Forward finds the batch of that step on every worker's device, one that has started
\* Backward finds Forward finished on every worker, one that has started Update finds
\* Backward finished everywhere, and one that has advanced its counters (or pulled the
\* batch of the next step) finds the Update of that step finished on every worker.
C13_StageOrder ==
    \A r, q \in Ranks :
        /\ Need(r) > 0 =>
              /\ Progress(q) >= 5 * state[r].global_step + Need(r)
              /\ state[q].global_step = state[r].global_step =>
                    /\ batch[q] = i_step[r]
                    /\ state[q].epoch = state[r].epoch
        /\ state[r].global_step > restored[r].global_step =>
              Progress(q) >= 5 * (state[r].global_step - 1) + 4

\* in a restored run a worker holds the batch of the next step while another has yet to
\* count the step before it
C13_Witness ==
    \E r, q \in Ranks :
        /\ pc[r] = "b248" /\ pc[q] = "advance" /\ resumed[r]
        /\ state[r].global_step = state[q].global_step + 1

\* one step of rank r, as far as epoch_step is concerned
C14_Step(r) ==
    launch' = launch =>
        /\ state'[r].epoch_step < state[r].epoch_step =>
              /\ pc[r] = "epoch_end"
              /\ i_next[r] = cfg.batches
              /\ pulled[r] = cfg.batches
              /\ state'[r].epoch_step = 0
        /\ (state'[r].epoch_step = 0 /\ state[r].epoch_step # 0) => pc[r] = "epoch_end"
        /\ (pc[r] = "epoch_head" /\ pc'[r] = "step_head"
               /\ state'[r].epoch > restored[r].epoch) =>
              state'[r].epoch_step = 0

\* C14: epoch_step is set to 0 only after the step loop has gone through every batch
\* index of the epoch (all batches pulled), never in mid-epoch; within an epoch it never
\* decreases; and it is 0 when an epoch after the first epoch of the run begins.
C14_EpochStepReset == [][\A r \in Ranks : C14_Step(r)]_vars

\* a run restored in mid-epoch begins its next epoch with epoch_step = 0
C14_Witness ==
    \E r \in Ranks :
        /\ pc[r] = "step_head" /\ i_next[r] = 0 /\ state[r].epoch_step = 0
        /\ resumed[r] /\ restored[r].epoch_step > 0
        /\ state[r].epoch > restored[r].epoch

\* the program points of the resume: the existence check and the three loads
RestorePcs == {"restore_check", "restore_shard", "restore_sched", "restore_state"}

\* the program points at which a rank writes a part of the record, or is about to
WritePcs ==
    {"save_shard", "save_shard_w", "save_sched", "save_sched_w", "save_state",
     "save_state_w"}

\* no part of the record was written by the current launch
UntouchedByLaunch ==
    /\ \A q \in Ranks : IsWhole(shard[q]) => shard[q].save[1] < launch
    /\ IsWhole(sched) => sched.save[1] < launch
    /\ IsWhole(stateJson) => stateJson.save[1] < launch

\* C15: within one launch no worker reads a part of the checkpoint record (the existence
\* check and the loads of the resume) while a worker writes one: while a worker is in the
\* resume no worker is in a write of a save, and what the worker reads was left by
\* earlier launches, although no barrier precedes the resume itself.
C15_NoReadDuringWrite ==
    \A r \in Ranks :
        pc[r] \in RestorePcs =>
            /\ \A q \in Ranks : pc[q] \notin WritePcs
            /\ UntouchedByLaunch

\* a worker loads the TrainingState while another has resumed and waits at the barrier
\* that follows the resume
C15_Witness ==
    \E r, q \in Ranks :
        /\ pc[r] = "restore_state" /\ IsWhole(stateJson)
        /\ pc[q] = "b195" /\ bar[q] = "in" /\ resumed[q]

\* the program points at which a rank writes lr_scheduler.pt or state.json
LeaderWritePcs == {"save_sched", "save_sched_w", "save_state", "save_state_w"}

\* the step is one of rank r alone
StepOf(r) == pc'[r] # pc[r] /\ \A q \in Ranks \ {r} : pc'[q] = pc[q]

C16_State ==
    /\ \A r \in Ranks : pc[r] \in LeaderWritePcs => r = 0
    /\ Cardinality({r \in Ranks : pc[r] \in LeaderWritePcs}) <= 1

C16_Step ==
    /\ sched' # sched => pc[0] \in {"save_sched", "save_sched_w"} /\ StepOf(0)
    /\ stateJson' # stateJson => pc[0] \in {"save_state", "save_state_w"} /\ StepOf(0)
    /\ \A q \in Ranks :
          shard'[q] # shard[q] => pc[q] \in {"save_shard", "save_shard_w"} /\ StepOf(q)

\* C16: in every save the scheduler blob and the TrainingState document are written by
\* rank 0 only and the shard of a rank by that rank only, so that in no reachable state
\* two workers write the same storage object.
C16_Writers == []C16_State /\ [][C16_Step]_vars

\* rank 0 is writing state.json while another worker, its shard written, waits at the
\* barrier after the write
C16_Witness ==
    /\ pc[0] = "save_state_w" /\ stateJson = Partial
    /\ \E q \in Ranks : q # 0 /\ pc[q] = "b322" /\ bar[q] = "in" /\ IsWhole(shard[q])

\* rank r is at line 278 of a step whose metrics branch will read the timer averages
AtMetricsRead(r) == pc[r] = "advance" /\ LogDue(AdvanceCounters(state[r], loss[r]))

C17_State ==
    \A r \in Ranks : AtMetricsRead(r) => \A k \in TimerNames : timers[r][k] >= 1

C17_Step == \A r \in Ranks : pc[r] = "advance" => pc'[r] # "fatal"

\* C17: the training loop never computes a timer average on an empty sample set. Where
\* the metrics branch reads the averages, each of the data, forward, backward, update and
\* waiting timers holds at least one sample recorded since its last reset, in fresh and
\* in resumed runs, so the step never ends in the division by zero.
C17_TimersNotEmpty == []C17_State /\ [][C17_Step]_vars

\* the first metrics read of a run resumed in mid-epoch, whose data timer also holds the
\* samples of the fast-forwarded batches
C17_Witness ==
    \E r \in Ranks :
        /\ AtMetricsRead(r) /\ resumed[r] /\ upd_since[r] = 1
        /\ restored[r].epoch_step > 0 /\ timers[r]["data"] > 1

\* the batch index of the step that makes global_step = j
BatchOf(j) == (j - 1) % cfg.batches

\* the rank whose loss of step j is in the running_loss of rank r: the steps up to the
\* restored global_step come with state.json, which rank 0 wrote
Owner(r, j) == IF j <= restored[r].global_step THEN 0 ELSE r

RECURSIVE SumLoss(_, _, _)
\* the sum of the losses of the steps lo .. hi, as rank r accumulates them
SumLoss(r, lo, hi) ==
    IF lo > hi THEN 0 ELSE LossOf(Owner(r, hi), BatchOf(hi)) + SumLoss(r, lo, hi - 1)

\* the global_step of the last metrics emission at or before step g
LastEmission(g) == g - (g % cfg.log_freq)

\* C18: at every metrics emission running_loss is the sum of the losses of exactly
\* log_interval executed steps, those since the previous emission, also at the first
\* emission after a resume: between emissions running_loss is the sum of the losses of
\* the steps since the last one, and the checkpoint, written after the reset of the same
\* step, stores that partial sum (0 when the step emitted).
C18_RunningLoss ==
    /\ \A r \in Ranks :
          /\ info[r] # NoInfo =>
                /\ info[r].step % cfg.log_freq = 0
                /\ info[r].running_loss =
                       SumLoss(r, info[r].step - cfg.log_freq + 1, info[r].step)
          /\ state[r].running_loss =
                 SumLoss(r, LastEmission(state[r].global_step) + 1, state[r].global_step)
    /\ IsWhole(stateJson) =>
          stateJson.val.running_loss =
              SumLoss(0, LastEmission(stateJson.val.global_step) + 1,
                      stateJson.val.global_step)

\* the first emission after a resume from a checkpoint that stored a partial sum
C18_Witness ==
    \E r \in Ranks :
        /\ resumed[r] /\ restored[r].running_loss > 0
        /\ info[r] # NoInfo /\ info[r].step = restored[r].global_step + 1
        /\ cfg.log_freq = 2

\* rank r has terminated in the training loop
Died(r) == died[r] # "no"

\* rank r is in the last epoch of the run, or past it
LastEpoch(r) == ep_next[r] >= cfg.num_epochs

\* the step loop of rank r is at its last batch index, or past it
LastIndex(r) == i_next[r] = cfg.batches

\* every batch index of the current epoch of rank r is fast-forwarded
AllSkipped(r) == state[r].epoch_step >= cfg.batches

\* the terminated rank r had made the barrier call of the point it was at
CallMade(r) == bar[r] # "out"

\* the terminated rank r had no barrier call left to make: it was past, or blocked in, the
\* last barrier of its last executed step, or had only fast-forwarded batches before it
NoBarrierAhead(r) ==
    CASE died[r] = "epoch_head" ->
             \/ LastEpoch(r)
             \/ ep_next[r] = cfg.num_epochs - 1 /\ AllSkipped(r)
      [] died[r] = "step_head" -> LastEpoch(r) /\ (LastIndex(r) \/ AllSkipped(r))
      [] died[r] = "data" -> LastEpoch(r) /\ AllSkipped(r)
      [] died[r] = "b276" ->
             /\ CallMade(r) /\ LastEpoch(r) /\ LastIndex(r)
             /\ ~CkptDue(AdvanceCounters(state[r], 0))
      [] died[r] = "advance" ->
             LastEpoch(r) /\ LastIndex(r) /\ ~CkptDue(AdvanceCounters(state[r], 0))
      [] died[r] = "b322" -> CallMade(r) /\ LastEpoch(r) /\ LastIndex(r)
      [] died[r] = "epoch_end" -> LastEpoch(r)
      [] OTHER -> FALSE

\* C19 as stated: once a worker has terminated in the training loop, no other worker
\* reaches Finished.
C19_NoneFinishes ==
    [][(\E r \in Ranks : Died(r)) =>
           \A q \in Ranks : pc'[q] = "done" => pc[q] = "done"]_vars

\* rank q is blocked in a barrier that the terminated rank keeps from releasing
Blocked(q) == pc[q] \in BarrierPoints /\ bar[q] = "in"

\* C19 amended: if one worker terminates in the training loop at a point where it still
\* had a barrier call to make, no other worker is or becomes Finished, and a remaining
\* worker that can take no step is blocked in a barrier; the other workers can finish
\* only when the worker terminated past its last barrier call (in or after the counter
\* advance of its last executed step, or in the barrier before it with its call made).
C19_DeadlockBeforeLastBarrier ==
    \A r \in Ranks :
        (Died(r) /\ ~NoBarrierAhead(r)) =>
            \A q \in Ranks \ {r} :
                /\ pc[q] # "done"
                /\ ~ENABLED RankStep(q) => Blocked(q)

\* a worker died in the Forward of a step of a restored run and another worker is blocked
\* in the barrier after Forward
C19_Witness ==
    \E r, q \in Ranks :
        /\ died[r] = "forward" /\ resumed[r]
        /\ q # r /\ pc[q] = "b256" /\ bar[q] = "in"

\* every worker is Finished
AllDone == \A r \in Ranks : pc[r] = "done"

\* a worker has failed: the resume found a truncated part of the record
SomeFailed == \E r \in Ranks : pc[r] = "fatal"

\* rank r was restored with an epoch at or beyond the epoch budget
BeyondBudget(r) == resumed[r] /\ restored[r].epoch >= cfg.num_epochs

\* C20 as stated, in its part on the terminal state: Finished is reached when epoch
\* reaches the configured epoch budget.
C20_EpochAtBudget ==
    \A r \in Ranks : pc[r] = "done" => state[r].epoch >= cfg.num_epochs

C20_State ==
    \A r \in Ranks :
        /\ pc[r] = "done" =>
              /\ ep_next[r] >= cfg.num_epochs
              /\ state[r].epoch =
                     IF BeyondBudget(r) THEN restored[r].epoch ELSE cfg.num_epochs - 1
              /\ ~resumed[r] => state[r].global_step = cfg.num_epochs * cfg.batches
        /\ BeyondBudget(r) =>
              /\ pc[r] \notin LoopPcs \ {"epoch_head"}
              /\ upd_since[r] = 0 /\ pulled[r] = 0
              /\ state[r] = restored[r]

\* C20 amended: if no worker fails and every worker that can take a step takes one, every
\* worker eventually is Finished for good (of the last launch). Finished is reached when
\* the range of epochs is exhausted: the epoch counter of the TrainingState then holds
\* the budget minus one, never the budget (or the restored epoch, when that was at or
\* beyond the budget). A fresh run finishes with global_step = budget x batches_per_epoch
\* and a run restored with epoch >= budget finishes without pulling a batch or executing
\* a step.
C20_Termination == <>[](AllDone \/ SomeFailed) /\ []C20_State

\* a run restored beyond a smaller budget has finished with the state it restored
C20_Witness ==
    /\ AllDone
    /\ \A r \in Ranks : BeyondBudget(r) /\ upd_since[r] = 0 /\ state[r].global_step > 0

====
